---- MODULE Spec2Model ----
(***************************************************************************)
(* Model of HarvestPlanComponent                                           *)
(* (src/src/app/harvest-plan/harvest-plan.component.ts).                   *)
(*                                                                         *)
(* A JavaScript string is a sequence of one-character strings, so that     *)
(* split, Number and the template literals are computed and not assumed.   *)
(* An optional value (T | undefined) is a sequence of length 0 or 1.       *)
(***************************************************************************)
EXTENDS Integers, Sequences, FiniteSets, TLC

VARIABLES
    form,             \* this.form.value: the eight form controls
    plan,             \* this.plan
    maxPlanDay,       \* this.maxPlanDay
    timelineDays,     \* this.timelineDays
    messages,         \* this.messages
    inputs,           \* generatePlan's local `inputs` (optional: not built on failure)
    validationPassed, \* generatePlan's local `validationPassed`
    parsed,           \* what the parseHarvestOrder call under test returned
    download,         \* the CSV content handed to the browser by the last step (optional)
    pc                \* where the component (or the function under test) stands

vars == <<form, plan, maxPlanDay, timelineDays, messages, inputs,
          validationPassed, parsed, download, pc>>

----------------------------------------------------------------------------
(* Bounds of the model. *)

\* buildPlan and parseHarvestOrder are explored for 1..MaxGroups groups.
MaxGroups == 3
\* Longest raw harvest-order string explored for parseHarvestOrder.
MaxLen == 5
\* buildPlan is explored for anodeDays in 1..MaxAnode, ...
MaxAnode == 2
\* ... each cathode sub-phase duration in 0..MaxCathode, ...
MaxCathode == 2
\* ... cleaningDays in 0..MaxClean ...
MaxClean == 1
\* ... and groupStartOffsetDays in 0..MaxOffset.
MaxOffset == 1

----------------------------------------------------------------------------
(* Program constants. *)

DefaultGroupCount == 8
DefaultAnodeDays == 14
DefaultCathodeA == 5
DefaultCathodeB == 5
DefaultCathodeC == 4
DefaultCleaningDays == 0
DefaultGroupStartOffsetDays == 1
InitialTimelineDays == 42
MinTimelineDays == 42
MaxGroupCount == 100
MaxAnodeDays == 365
MaxCleaningDays == 60
MaxGroupStartOffsetDays == 30

----------------------------------------------------------------------------
(* Optional values and small helpers. *)

Undefined == <<>>
Some(x) == <<x>>
IsDefined(o) == Len(o) = 1
Get(o) == o[1]

Max(a, b) == IF a >= b THEN a ELSE b

----------------------------------------------------------------------------
(* Strings. *)

DigitChars == <<"0", "1", "2", "3", "4", "5", "6", "7", "8", "9">>
IsDigit(c) == \E d \in 1..10 : DigitChars[d] = c
DigitValue(c) == (CHOOSE d \in 1..10 : DigitChars[d] = c) - 1

RECURSIVE NatToString(_)
\* String(n) for a natural number n
NatToString(n) ==
    IF n < 10 THEN <<DigitChars[n + 1]>>
    ELSE NatToString(n \div 10) \o <<DigitChars[(n % 10) + 1]>>

\* String(n) for an integer n, as a template literal or join() renders it
NumberToString(n) == IF n < 0 THEN <<"-">> \o NatToString(-n) ELSE NatToString(n)

\* the template literal `${a} - ${b}`
FormatRange(a, b) == NumberToString(a) \o <<" ", "-", " ">> \o NumberToString(b)

RECURSIVE Join(_, _)
\* Array.prototype.join over an array of strings
Join(strs, sep) ==
    IF strs = <<>> THEN <<>>
    ELSE IF Len(strs) = 1 THEN strs[1]
    ELSE strs[1] \o sep \o Join(Tail(strs), sep)

\* the character class [,\s] of the split pattern
IsSeparator(c) == c \in {",", " "}

\* value.split(/[,\s]+/): the pieces between maximal runs of separators; a
\* leading or trailing run leaves an empty first or last piece.
Split(s) ==
    LET F[i \in 0..Len(s)] ==
            IF i = 0 THEN << <<>> >>
            ELSE IF IsSeparator(s[i])
                 THEN IF i > 1 /\ IsSeparator(s[i - 1])
                      THEN F[i - 1]
                      ELSE Append(F[i - 1], <<>>)
                 ELSE [F[i - 1] EXCEPT ![Len(F[i - 1])] = Append(@, s[i])]
    IN F[Len(s)]

RECURSIVE DecimalValue(_)
DecimalValue(token) ==
    IF token = <<>> THEN 0
    ELSE 10 * DecimalValue(SubSeq(token, 1, Len(token) - 1))
         + DigitValue(token[Len(token)])

\* Number(token) for a token free of separators: the empty string is 0, a run
\* of decimal digits is its value, anything else is NaN.
NumberOf(token) ==
    IF \A i \in 1..Len(token) : IsDigit(token[i])
    THEN [nan |-> FALSE, num |-> DecimalValue(token)]
    ELSE [nan |-> TRUE, num |-> 0]

\* Number.isInteger(x): NumberOf yields no fractions
IsInteger(x) == ~x.nan

----------------------------------------------------------------------------
(* parseHarvestOrder *)

RECURSIVE Unique(_)
\* Array.from(new Set(numbers)): first occurrences, in insertion order
Unique(s) ==
    IF s = <<>> THEN <<>>
    ELSE LET front == Unique(SubSeq(s, 1, Len(s) - 1))
             last == s[Len(s)]
         IN IF \E i \in 1..Len(front) : front[i] = last
            THEN front ELSE Append(front, last)

RECURSIVE InsertAsc(_, _)
InsertAsc(sorted, n) ==
    IF sorted = <<>> THEN <<n>>
    ELSE IF n < Head(sorted) THEN <<n>> \o sorted
    ELSE <<Head(sorted)>> \o InsertAsc(Tail(sorted), n)

RECURSIVE SortAsc(_)
\* unique.sort((a, b) => a - b)
SortAsc(s) ==
    IF s = <<>> THEN <<>>
    ELSE InsertAsc(SortAsc(SubSeq(s, 1, Len(s) - 1)), s[Len(s)])

\* the `numbers` array: tokens mapped by Number, filtered to positive integers
ParseNumbers(value) ==
    LET tokens == Split(value)
        mapped == [i \in 1..Len(tokens) |-> NumberOf(tokens[i])]
        kept == SelectSeq(mapped, LAMBDA x : IsInteger(x) /\ x.num > 0)
    IN [i \in 1..Len(kept) |-> kept[i].num]

\* IsPermutation without unique.length === groupCount
IsPermutation_NoCountOfUnique(numbers, groupCount) ==
    LET unique == Unique(numbers)
        sorted == SortAsc(unique)
    IN /\ \A i \in 1..Len(unique) : unique[i] >= 1 /\ unique[i] <= groupCount
       /\ \A idx \in 1..Len(sorted) : sorted[idx] = idx

\* the isPermutation test of parseHarvestOrder
IsPermutation(numbers, groupCount) ==
    LET unique == Unique(numbers)
        sorted == SortAsc(unique)
    IN /\ Len(unique) = groupCount
       /\ \A i \in 1..Len(unique) : unique[i] >= 1 /\ unique[i] <= groupCount
       /\ \A idx \in 1..Len(sorted) : sorted[idx] = idx

parseHarvestOrder(value, groupCount) ==
    IF value = <<>> THEN <<>>
    ELSE LET numbers == ParseNumbers(value)
         IN IF Len(numbers) # groupCount THEN <<>>
            ELSE IF IsPermutation(numbers, groupCount) THEN numbers ELSE <<>>

\* defaultOrder(groupCount): "1,2,...,groupCount"
defaultOrder(groupCount) ==
    Join([i \in 1..groupCount |-> NumberToString(i)], <<",">>)

----------------------------------------------------------------------------
(* buildPlan *)

\* one PlanPhase
Phase(name, startDay, endDay, durationDays, type) ==
    [name |-> name, startDay |-> startDay, endDay |-> endDay,
     durationDays |-> durationDays, type |-> type]

\* one PlanEvent
Event(name, day) == [name |-> name, day |-> day]

\* PlanDays with cathode-reinserted starting on the last day of cathode-out
PlanDays_ReinsertOverlaps(in, index) ==
    LET startDay == 1 + index * in.groupStartOffsetDays
        anodeEnd == startDay + in.anodeDays - 1
        cathodeOutStart == startDay + in.cathodePhases[1]
        cathodeOutEnd == cathodeOutStart + in.cathodePhases[2] - 1
        cathodeReinsertStart == cathodeOutEnd
        cleaningStart == anodeEnd + 1
    IN [startDay |-> startDay,
        anodeEnd |-> anodeEnd,
        cathodeOutStart |-> cathodeOutStart,
        cathodeOutEnd |-> cathodeOutEnd,
        cathodeReinsertStart |-> cathodeReinsertStart,
        cathodeReinsertEnd |-> cathodeReinsertStart + in.cathodePhases[3] - 1,
        harvestDay |-> anodeEnd + 1,
        cleaningStart |-> cleaningStart,
        cleaningEnd |-> cleaningStart + in.cleaningDays - 1]

\* the day numbers one iteration of the forEach callback computes (index is 0-based)
PlanDays(in, index) ==
    LET startDay == 1 + index * in.groupStartOffsetDays
        anodeEnd == startDay + in.anodeDays - 1
        cathodeOutStart == startDay + in.cathodePhases[1]
        cathodeOutEnd == cathodeOutStart + in.cathodePhases[2] - 1
        cathodeReinsertStart == cathodeOutEnd + 1
        cleaningStart == anodeEnd + 1
    IN [startDay |-> startDay,
        anodeEnd |-> anodeEnd,
        cathodeOutStart |-> cathodeOutStart,
        cathodeOutEnd |-> cathodeOutEnd,
        cathodeReinsertStart |-> cathodeReinsertStart,
        cathodeReinsertEnd |-> cathodeReinsertStart + in.cathodePhases[3] - 1,
        harvestDay |-> anodeEnd + 1,
        cleaningStart |-> cleaningStart,
        cleaningEnd |-> cleaningStart + in.cleaningDays - 1]

\* the four phases every group has
FixedPhases(in, d) ==
    << Phase("Anode im Elektrolyt", d.startDay, d.anodeEnd, in.anodeDays, "anode"),
       Phase("Kathoden drin", d.startDay, d.startDay + in.cathodePhases[1] - 1,
             in.cathodePhases[1], "cathode-in"),
       Phase("Kathoden entfernt", d.cathodeOutStart, d.cathodeOutEnd,
             in.cathodePhases[2], "cathode-out"),
       Phase("Kathoden wieder eingesetzt", d.cathodeReinsertStart,
             d.cathodeReinsertEnd, in.cathodePhases[3], "cathode-reinserted") >>

\* CleaningPhase guarded by cleaningDays >= 0
CleaningPhase_AlsoForZero(in, d) ==
    IF in.cleaningDays >= 0
    THEN << Phase("Cleaning", d.cleaningStart, d.cleaningEnd, in.cleaningDays,
                  "cleaning") >>
    ELSE <<>>

\* the cleaning phase, pushed only when there are cleaning days
CleaningPhase(in, d) ==
    IF in.cleaningDays > 0
    THEN << Phase("Cleaning", d.cleaningStart, d.cleaningEnd, in.cleaningDays,
                  "cleaning") >>
    ELSE <<>>

\* the four events every group has, and "Cleaning done" when there are cleaning days
PlanEvents(in, d) ==
    << Event("Einheben", d.startDay),
       Event("Kathoden raus", d.cathodeOutStart),
       Event("Kathoden rein", d.cathodeReinsertStart),
       Event("Harvest/Anoden raus", d.harvestDay) >>
    \o (IF in.cleaningDays > 0
        THEN << Event("Cleaning done", d.cleaningEnd + 1) >>
        ELSE <<>>)

\* GroupEndDay ending the group on the last cleaning day
GroupEndDay_AtCleaningEnd(in, d) ==
    IF in.cleaningDays > 0 THEN d.cleaningEnd ELSE d.harvestDay

\* the group's endDay
GroupEndDay(in, d) ==
    IF in.cleaningDays > 0 THEN d.cleaningEnd + 1 ELSE d.harvestDay

\* the GroupPlan pushed by one iteration of the forEach callback
GroupPlanAt(in, groupNumber, index) ==
    LET d == PlanDays(in, index)
    IN [group |-> groupNumber,
        startDay |-> d.startDay,
        endDay |-> GroupEndDay(in, d),
        phases |-> FixedPhases(in, d) \o CleaningPhase(in, d),
        events |-> PlanEvents(in, d),
        harvestDay |-> d.harvestDay,
        cleaningRange |->
            IF in.cleaningDays > 0
            THEN Some(FormatRange(d.cleaningStart, d.cleaningEnd)) ELSE Undefined,
        cathodeOutRange |-> FormatRange(d.cathodeOutStart, d.cathodeOutEnd)]

RECURSIVE InsertByGroup(_, _)
InsertByGroup(sorted, gp) ==
    IF sorted = <<>> THEN <<gp>>
    ELSE IF gp.group < Head(sorted).group THEN <<gp>> \o sorted
    ELSE <<Head(sorted)>> \o InsertByGroup(Tail(sorted), gp)

RECURSIVE SortByGroup(_)
\* plans.sort((a, b) => a.group - b.group): ascending by group, stable
SortByGroup(plans) ==
    IF plans = <<>> THEN <<>>
    ELSE InsertByGroup(SortByGroup(SubSeq(plans, 1, Len(plans) - 1)),
                       plans[Len(plans)])

\* PlansInHarvestOrder with the start day taken from the group number
PlansInHarvestOrder_StaggeredByGroup(in) ==
    [i \in 1..Len(in.harvestOrder) |->
        GroupPlanAt(in, in.harvestOrder[i], in.harvestOrder[i] - 1)]

\* the `plans` array after the forEach, in harvest order (index is 0-based)
PlansInHarvestOrder(in) ==
    [i \in 1..Len(in.harvestOrder) |-> GroupPlanAt(in, in.harvestOrder[i], i - 1)]

\* buildPlan without the final sort
buildPlan_Unsorted(in) == PlansInHarvestOrder(in)

\* buildPlan: the plans of the forEach, sorted by group
buildPlan(in) == SortByGroup(PlansInHarvestOrder(in))

----------------------------------------------------------------------------
(* The form and validateForm *)

\* the values the constructor and resetDefaults give the form
DefaultForm ==
    [groupCount |-> DefaultGroupCount,
     anodeDays |-> DefaultAnodeDays,
     cathodeA |-> DefaultCathodeA,
     cathodeB |-> DefaultCathodeB,
     cathodeC |-> DefaultCathodeC,
     cleaningDays |-> DefaultCleaningDays,
     harvestOrder |-> defaultOrder(DefaultGroupCount),
     groupStartOffsetDays |-> DefaultGroupStartOffsetDays]

\* form.invalid: some control fails one of the validators the constructor gave it
\* (Validators.required fails on the empty string; the numeric controls here
\* always hold a number)
FormInvalid(f) ==
    \/ f.groupCount < 1 \/ f.groupCount > MaxGroupCount
    \/ f.anodeDays < 1 \/ f.anodeDays > MaxAnodeDays
    \/ f.cathodeA < 0
    \/ f.cathodeB < 0
    \/ f.cathodeC < 0
    \/ f.cleaningDays < 0 \/ f.cleaningDays > MaxCleaningDays
    \/ Len(f.harvestOrder) = 0
    \/ f.groupStartOffsetDays < 0 \/ f.groupStartOffsetDays > MaxGroupStartOffsetDays

cathodeSum(f) == f.cathodeA + f.cathodeB + f.cathodeC

cathodeSumMismatch(f) == cathodeSum(f) # f.anodeDays

Finding(severity, detail) == [severity |-> severity, detail |-> detail]

\* the `errors` array validateForm collects
ValidationFindings(f) ==
    (IF FormInvalid(f)
     THEN << Finding("error", "Bitte alle Pflichtfelder korrekt ausfuellen.") >>
     ELSE <<>>)
    \o (IF Len(parseHarvestOrder(f.harvestOrder, f.groupCount)) = 0
        THEN << Finding("error", "Harvest-Reihenfolge ist ungueltig.") >>
        ELSE <<>>)
    \o (IF cathodeSumMismatch(f)
        THEN << Finding("warn", "Summe der Kathoden-Phasen entspricht nicht anodeDays.") >>
        ELSE <<>>)

\* validateForm counting findings of every severity
validateForm_WarningsBlock(f) == Len(ValidationFindings(f)) = 0

\* the value validateForm returns
validateForm(f) ==
    Len(SelectSeq(ValidationFindings(f), LAMBDA e : e.severity = "error")) = 0

----------------------------------------------------------------------------
(* generatePlan and exportCsv *)

\* the HarvestPlanInputs generatePlan assembles from the form
InputsOf(f) ==
    [groupCount |-> f.groupCount,
     anodeDays |-> f.anodeDays,
     cathodePhases |-> <<f.cathodeA, f.cathodeB, f.cathodeC>>,
     cleaningDays |-> f.cleaningDays,
     harvestOrder |-> parseHarvestOrder(f.harvestOrder, f.groupCount),
     groupStartOffsetDays |-> f.groupStartOffsetDays]

RECURSIVE MaxEndDay(_)
\* plan.reduce((max, gp) => Math.max(max, gp.endDay), 0)
MaxEndDay(p) ==
    IF p = <<>> THEN 0
    ELSE Max(MaxEndDay(SubSeq(p, 1, Len(p) - 1)), p[Len(p)].endDay)

\* GeneratePlan returning on an ERROR without clearing plan and maxPlanDay
GeneratePlan_KeepsPlanOnError(f) ==
    /\ messages' = ValidationFindings(f)
    /\ validationPassed' = validateForm(f)
    /\ IF ~validateForm(f)
       THEN UNCHANGED <<plan, maxPlanDay, inputs, timelineDays>>
       ELSE \E in \in {InputsOf(f)} : \E built \in {buildPlan(in)} :
                /\ inputs' = Some(in)
                /\ plan' = built
                /\ maxPlanDay' = MaxEndDay(built)
                /\ timelineDays' = Max(MinTimelineDays, MaxEndDay(built))
    /\ download' = Undefined
    /\ pc' = "generated"
    /\ UNCHANGED parsed

\* generatePlan on form value f: everything it assigns
GeneratePlan(f) ==
    /\ messages' = ValidationFindings(f)
    /\ validationPassed' = validateForm(f)
    /\ IF ~validationPassed'
       THEN /\ plan' = <<>>
            /\ maxPlanDay' = 0
            /\ inputs' = Undefined
            /\ UNCHANGED timelineDays
       ELSE \E in \in {InputsOf(f)} : \E built \in {buildPlan(in)} :
                /\ inputs' = Some(in)
                /\ plan' = built
                /\ maxPlanDay' = MaxEndDay(built)
                /\ timelineDays' = Max(MinTimelineDays, MaxEndDay(built))
    /\ download' = Undefined
    /\ pc' = "generated"
    /\ UNCHANGED parsed

CsvHeader ==
    <<
       "G", "r", "o", "u", "p", ",", "S", "t", "a", "r", "t", " ", "D",
       "a", "y", ",", "E", "n", "d", " ", "D", "a", "y", ",", "C", "a",
       "t", "h", "o", "d", "e", " ", "O", "u", "t", " ", "R", "a", "n",
       "g", "e", ",", "H", "a", "r", "v", "e", "s", "t", " ", "D", "a",
       "y", ",", "C", "l", "e", "a", "n", "i", "n", "g", " ", "R", "a",
       "n", "g", "e"
    >>

\* one row of the export: the six cells joined by commas
CsvRow(p) ==
    Join(<< NumberToString(p.group), NumberToString(p.startDay),
            NumberToString(p.endDay), p.cathodeOutRange,
            NumberToString(p.harvestDay),
            IF IsDefined(p.cleaningRange) THEN Get(p.cleaningRange) ELSE <<"-">> >>,
         <<",">>)

\* csvContent: the header and the rows joined by line feeds
CsvContent(p) ==
    Join(<<CsvHeader>> \o [i \in 1..Len(p) |-> CsvRow(p[i])], <<"\n">>)

----------------------------------------------------------------------------
(* The component: its state after construction and its operations *)

Constructed ==
    /\ form = DefaultForm
    /\ plan = <<>>
    /\ maxPlanDay = 0
    /\ timelineDays = InitialTimelineDays
    /\ messages = <<>>
    /\ inputs = Undefined
    /\ validationPassed = FALSE
    /\ parsed = <<>>
    /\ download = Undefined

Init == Constructed /\ pc = "constructed"

\* ngOnInit: subscribes the live validation and generates the first plan
ngOnInit ==
    /\ pc = "constructed"
    /\ GeneratePlan(form)
    /\ UNCHANGED form

\* the values a user gives a control in this model: for groupCount and
\* harvestOrder a second permutation, for anodeDays a value that fails
\* validation and one that pushes the plan past the 42-day timeline, for
\* cathodeA one that overruns the anode phase, for cleaningDays one that adds
\* the cleaning phase; the other controls keep the value they have
ControlInputs ==
    [groupCount |-> {2, DefaultGroupCount},
     anodeDays |-> {0, DefaultAnodeDays, 50},
     cathodeA |-> {DefaultCathodeA, 50},
     cathodeB |-> {DefaultCathodeB},
     cathodeC |-> {DefaultCathodeC},
     cleaningDays |-> {DefaultCleaningDays, 2},
     harvestOrder |-> {<<"2", ",", "1">>, defaultOrder(DefaultGroupCount)},
     groupStartOffsetDays |-> {DefaultGroupStartOffsetDays}]

\* the user edits one control
EditControl ==
    /\ pc # "constructed"
    /\ \E c \in DOMAIN ControlInputs : \E v \in ControlInputs[c] :
           form' = [form EXCEPT ![c] = v]
    /\ pc' = "edited"
    /\ download' = Undefined
    /\ UNCHANGED <<plan, maxPlanDay, timelineDays, messages, inputs,
                   validationPassed, parsed>>

normalizeCathodes ==
    /\ pc # "constructed"
    /\ form' = [form EXCEPT !.cathodeC =
                    Max(form.anodeDays - form.cathodeA - form.cathodeB, 0)]
    /\ pc' = "edited"
    /\ download' = Undefined
    /\ UNCHANGED <<plan, maxPlanDay, timelineDays, messages, inputs,
                   validationPassed, parsed>>

\* the valueChanges subscription: validateForm(false) computes its findings
\* and its result and drops both
LiveValidate ==
    /\ pc # "constructed"
    /\ validateForm(form) \in BOOLEAN
    /\ download' = Undefined
    /\ UNCHANGED <<form, plan, maxPlanDay, timelineDays, messages, inputs,
                   validationPassed, parsed, pc>>

generatePlan ==
    /\ pc # "constructed"
    /\ GeneratePlan(form)
    /\ UNCHANGED form

resetDefaults ==
    /\ pc # "constructed"
    /\ form' = DefaultForm
    /\ GeneratePlan(DefaultForm)

exportCsv ==
    /\ pc # "constructed"
    /\ download' = IF Len(plan) = 0 THEN Undefined ELSE Some(CsvContent(plan))
    /\ UNCHANGED <<form, plan, maxPlanDay, timelineDays, messages, inputs,
                   validationPassed, parsed, pc>>

Next ==
    \/ ngOnInit
    \/ EditControl
    \/ normalizeCathodes
    \/ LiveValidate
    \/ generatePlan
    \/ resetDefaults
    \/ exportCsv

Spec == Init /\ [][Next]_vars

----------------------------------------------------------------------------
(* buildPlan alone, on every valid HarvestPlanInputs within the bounds *)

\* the permutations of 1..n, as sequences
OrdersOf(n) ==
    {p \in [1..n -> 1..n] : \A i, j \in 1..n : p[i] = p[j] => i = j}

\* the inputs are every HarvestPlanInputs that passes validation, within the bounds
InitBuild ==
    /\ form = DefaultForm
    /\ plan = <<>>
    /\ maxPlanDay = 0
    /\ timelineDays = InitialTimelineDays
    /\ messages = <<>>
    /\ validationPassed = FALSE
    /\ parsed = <<>>
    /\ download = Undefined
    /\ pc = "call"
    /\ \E n \in 1..MaxGroups : \E h \in OrdersOf(n) :
       \E a \in 1..MaxAnode : \E c \in [1..3 -> 0..MaxCathode] :
       \E k \in 0..MaxClean : \E o \in 0..MaxOffset :
           inputs = Some([groupCount |-> n, anodeDays |-> a, cathodePhases |-> c,
                          cleaningDays |-> k, harvestOrder |-> h,
                          groupStartOffsetDays |-> o])

\* this.buildPlan(inputs)
CallBuildPlan ==
    /\ pc = "call"
    /\ plan' = buildPlan(Get(inputs))
    /\ pc' = "return"
    /\ UNCHANGED <<form, maxPlanDay, timelineDays, messages, inputs,
                   validationPassed, parsed, download>>

NextBuild == CallBuildPlan

SpecBuild == InitBuild /\ [][NextBuild]_vars

----------------------------------------------------------------------------
(* parseHarvestOrder alone, on every raw string within the bounds *)

\* the characters of the raw strings: digits, both kinds of separator, a letter
Alphabet == {"0", "1", "2", "3", ",", " ", "x"}

\* the inputs are every raw string of at most MaxLen characters, with every
\* group count up to one more than MaxGroups
InitParse ==
    /\ plan = <<>>
    /\ maxPlanDay = 0
    /\ timelineDays = InitialTimelineDays
    /\ messages = <<>>
    /\ inputs = Undefined
    /\ validationPassed = FALSE
    /\ parsed = <<>>
    /\ download = Undefined
    /\ pc = "call"
    /\ \E len \in 0..MaxLen : \E raw \in [1..len -> Alphabet] :
       \E n \in 0..(MaxGroups + 1) :
           form = [DefaultForm EXCEPT !.harvestOrder = raw, !.groupCount = n]

\* this.parseHarvestOrder(orderRaw, groupCount)
CallParseHarvestOrder ==
    /\ pc = "call"
    /\ parsed' = parseHarvestOrder(form.harvestOrder, form.groupCount)
    /\ pc' = "return"
    /\ UNCHANGED <<form, plan, maxPlanDay, timelineDays, messages, inputs,
                   validationPassed, download>>

NextParse == CallParseHarvestOrder

SpecParse == InitParse /\ [][NextParse]_vars

----------------------------------------------------------------------------
(* validateForm and generatePlan on forms at and beyond every validator's edge *)

\* form values around the limits of each validator; the orders are the empty
\* string, one group, a permutation of two, a duplicate, and one with a token
\* that is no number
EdgeForms ==
    {[groupCount |-> n, anodeDays |-> a, cathodeA |-> ca, cathodeB |-> cb,
      cathodeC |-> cc, cleaningDays |-> k, harvestOrder |-> h,
      groupStartOffsetDays |-> o] :
        n \in {0, 1, 2, MaxGroupCount + 1},
        a \in {0, 1, MaxAnodeDays, MaxAnodeDays + 1},
        ca \in {-1, 0, 1}, cb \in {-1, 0}, cc \in {-1, 0, 1},
        k \in {-1, 0, MaxCleaningDays, MaxCleaningDays + 1},
        h \in {<<>>, <<"1">>, <<"2", ",", "1">>, <<"1", " ", "1">>,
               <<"1", ",", "x", ",", "2">>},
        o \in {-1, 0, MaxGroupStartOffsetDays, MaxGroupStartOffsetDays + 1}}

\* the component after ngOnInit and some edits of the form
InitValidate ==
    /\ inputs = Some(InputsOf(DefaultForm))
    /\ plan = buildPlan(InputsOf(DefaultForm))
    /\ maxPlanDay = MaxEndDay(buildPlan(InputsOf(DefaultForm)))
    /\ timelineDays = Max(MinTimelineDays, MaxEndDay(buildPlan(InputsOf(DefaultForm))))
    /\ messages = ValidationFindings(DefaultForm)
    /\ validationPassed = validateForm(DefaultForm)
    /\ parsed = <<>>
    /\ download = Undefined
    /\ pc = "edited"
    /\ form \in EdgeForms

NextValidate == LiveValidate \/ generatePlan

SpecValidate == InitValidate /\ [][NextValidate]_vars

----------------------------------------------------------------------------
(* Properties of buildPlan, checked under SpecBuild *)

\* buildPlan has returned on the inputs held in `inputs`
Built == pc = "return" /\ IsDefined(inputs)

\* the indices of the phases of type t in a GroupPlan
PhasesOfType(gp, t) == {i \in 1..Len(gp.phases) : gp.phases[i].type = t}

\* the phase of type t of a GroupPlan that has one
PhaseOfType(gp, t) == gp.phases[CHOOSE i \in PhasesOfType(gp, t) : TRUE]

\* C1: the GroupPlan of the group at 0-based position index of harvestOrder
\* starts on day 1 + index * groupStartOffsetDays, whatever its group number,
\* although the returned list is ordered by group.
C1_StartDayFollowsHarvestPosition ==
    Built =>
        \A i \in 1..Len(Get(inputs).harvestOrder) :
            /\ \E j \in 1..Len(plan) : plan[j].group = Get(inputs).harvestOrder[i]
            /\ \A j \in 1..Len(plan) :
                   plan[j].group = Get(inputs).harvestOrder[i] =>
                       plan[j].startDay = 1 + (i - 1) * Get(inputs).groupStartOffsetDays

\* C1 witness: harvest order 2,1,3 with a positive offset: group 2, listed
\* second, starts before group 1, listed first.
C1_Witness ==
    /\ Built
    /\ Get(inputs).harvestOrder = <<2, 1, 3>>
    /\ Get(inputs).groupStartOffsetDays > 0
    /\ plan[2].group = 2 /\ plan[2].startDay = 1
    /\ plan[1].group = 1 /\ plan[1].startDay > 1

\* C2: the returned list has groupCount entries and its group fields, in list
\* order, are 1, 2, ..., groupCount.
C2_OutputIsSortedPermutation ==
    Built =>
        /\ Len(plan) = Get(inputs).groupCount
        /\ \A j \in 1..Len(plan) : plan[j].group = j

\* C2 witness: three groups given in descending order come back ascending.
C2_Witness ==
    /\ Built
    /\ Get(inputs).harvestOrder = <<3, 2, 1>>
    /\ Len(plan) = 3
    /\ plan[1].group = 1 /\ plan[3].group = 3

\* C4: in every GroupPlan each phase has durationDays = endDay - startDay + 1,
\* cathode-in ends the day before cathode-out starts, and cathode-out ends the
\* day before cathode-reinserted starts, also for durations of 0.
C4_PhaseRangesConsistent ==
    Built =>
        \A j \in 1..Len(plan) :
            /\ \A i \in 1..Len(plan[j].phases) :
                   plan[j].phases[i].durationDays =
                       plan[j].phases[i].endDay - plan[j].phases[i].startDay + 1
            /\ \A t \in {"cathode-in", "cathode-out", "cathode-reinserted"} :
                   Cardinality(PhasesOfType(plan[j], t)) = 1
            /\ PhaseOfType(plan[j], "cathode-in").endDay + 1 =
                   PhaseOfType(plan[j], "cathode-out").startDay
            /\ PhaseOfType(plan[j], "cathode-out").endDay + 1 =
                   PhaseOfType(plan[j], "cathode-reinserted").startDay

\* C4 witness: a plan whose cathode-out phase lasts 0 days between two
\* cathode phases that last longer.
C4_Witness ==
    /\ Built
    /\ Get(inputs).cathodePhases = <<1, 0, 2>>
    /\ Len(plan) >= 2
    /\ PhaseOfType(plan[2], "cathode-out").durationDays = 0
    /\ PhaseOfType(plan[2], "cathode-reinserted").durationDays = 2

\* C5: every PlanPhase buildPlan emits on valid inputs has startDay >= 1,
\* endDay >= 1 and endDay >= startDay.
C5_PhaseDaysOrdered ==
    Built =>
        \A j \in 1..Len(plan) : \A i \in 1..Len(plan[j].phases) :
            /\ plan[j].phases[i].startDay >= 1
            /\ plan[j].phases[i].endDay >= 1
            /\ plan[j].phases[i].endDay >= plan[j].phases[i].startDay

\* C6: with anodeEnd = startDay + anodeDays - 1, harvestDay = anodeEnd + 1;
\* endDay = harvestDay when cleaningDays = 0 and endDay = anodeEnd +
\* cleaningDays + 1 when cleaningDays > 0.
C6_HarvestAndEndDay ==
    Built =>
        \A j \in 1..Len(plan) :
            LET anodeEnd == plan[j].startDay + Get(inputs).anodeDays - 1
            IN /\ plan[j].harvestDay = anodeEnd + 1
               /\ Get(inputs).cleaningDays = 0 => plan[j].endDay = plan[j].harvestDay
               /\ Get(inputs).cleaningDays > 0 =>
                      plan[j].endDay = anodeEnd + Get(inputs).cleaningDays + 1

\* C6 witness: a staggered group with cleaning days, ending after its harvest day.
C6_Witness ==
    /\ Built
    /\ Get(inputs).cleaningDays > 0
    /\ Get(inputs).groupStartOffsetDays > 0
    /\ Len(plan) >= 2
    /\ plan[2].endDay = plan[2].harvestDay + Get(inputs).cleaningDays

\* C9: a cleaning phase, a cleaningRange and a "Cleaning done" event are
\* present exactly when cleaningDays > 0; then the phase spans
\* [anodeEnd + 1, anodeEnd + cleaningDays] and the event is on the group's
\* endDay; with cleaningDays = 0 the group has exactly the four phases anode,
\* cathode-in, cathode-out, cathode-reinserted and exactly the four fixed events.
C9_CleaningIffCleaningDays ==
    Built =>
        \A j \in 1..Len(plan) :
            LET gp == plan[j]
                k == Get(inputs).cleaningDays
                anodeEnd == gp.startDay + Get(inputs).anodeDays - 1
                doneEvents == {i \in 1..Len(gp.events) : gp.events[i].name = "Cleaning done"}
            IN /\ (PhasesOfType(gp, "cleaning") # {}) <=> (k > 0)
               /\ IsDefined(gp.cleaningRange) <=> (k > 0)
               /\ (doneEvents # {}) <=> (k > 0)
               /\ k > 0 =>
                      /\ Cardinality(PhasesOfType(gp, "cleaning")) = 1
                      /\ PhaseOfType(gp, "cleaning").startDay = anodeEnd + 1
                      /\ PhaseOfType(gp, "cleaning").endDay = anodeEnd + k
                      /\ Cardinality(doneEvents) = 1
                      /\ \A i \in doneEvents : gp.events[i].day = gp.endDay
               /\ k = 0 =>
                      /\ [i \in 1..Len(gp.phases) |-> gp.phases[i].type] =
                             <<"anode", "cathode-in", "cathode-out", "cathode-reinserted">>
                      /\ [i \in 1..Len(gp.events) |-> gp.events[i].name] =
                             <<"Einheben", "Kathoden raus", "Kathoden rein",
                               "Harvest/Anoden raus">>

\* C9 witness: a plan with cleaning days, whose groups have five phases, five
\* events and a cleaning range.
C9_Witness ==
    /\ Built
    /\ Get(inputs).cleaningDays > 0
    /\ Len(plan[1].phases) = 5
    /\ Len(plan[1].events) = 5
    /\ IsDefined(plan[1].cleaningRange)

----------------------------------------------------------------------------
(* Properties of parseHarvestOrder, checked under SpecParse *)

\* C3: with `kept` the tokens that parse as positive integers, the result is
\* empty when their count differs from groupCount, when a value is
\* duplicated, lies outside 1..groupCount or is missing from it; otherwise it
\* is `kept`, in the order given.
C3_ParseHarvestOrder ==
    pc = "return" =>
        LET kept == ParseNumbers(form.harvestOrder)
            n == form.groupCount
            rejected ==
                \/ Len(kept) # n
                \/ \E i, j \in 1..Len(kept) : i # j /\ kept[i] = kept[j]
                \/ \E i \in 1..Len(kept) : kept[i] < 1 \/ kept[i] > n
                \/ \E v \in 1..n : \A i \in 1..Len(kept) : kept[i] # v
        IN /\ rejected => parsed = <<>>
           /\ ~rejected => parsed = kept

\* C3 witness: "3 1,2" for three groups is returned as 3,1,2, not sorted.
C3_Witness ==
    /\ pc = "return"
    /\ form.harvestOrder = <<"3", " ", "1", ",", "2">>
    /\ form.groupCount = 3
    /\ parsed = <<3, 1, 2>>

----------------------------------------------------------------------------
(* Properties of validateForm and generatePlan *)

\* every numeric control is within the range its validators state
InRange(f) ==
    /\ f.groupCount >= 1 /\ f.groupCount <= 100
    /\ f.anodeDays >= 1 /\ f.anodeDays <= 365
    /\ f.cathodeA >= 0 /\ f.cathodeB >= 0 /\ f.cathodeC >= 0
    /\ f.cleaningDays >= 0 /\ f.cleaningDays <= 60
    /\ f.groupStartOffsetDays >= 0 /\ f.groupStartOffsetDays <= 30

HasFinding(severity) == \E i \in 1..Len(messages) : messages[i].severity = severity

\* C7: the result of validation is true exactly when there is no ERROR
\* finding, that is exactly when every numeric field is in range and the
\* harvest order parses to a non-empty permutation; a cathode sum other than
\* anodeDays adds a WARNING only, and generatePlan then still produces a plan.
\* Checked under SpecValidate.
C7_ValidIffNoError ==
    pc = "generated" =>
        /\ validationPassed <=> ~HasFinding("error")
        /\ validationPassed <=>
               (InRange(form) /\ Len(parseHarvestOrder(form.harvestOrder, form.groupCount)) > 0)
        /\ HasFinding("warn") <=>
               (form.cathodeA + form.cathodeB + form.cathodeC # form.anodeDays)
        /\ \A i \in 1..Len(messages) : messages[i].severity \in {"error", "warn"}
        /\ validationPassed => Len(plan) = form.groupCount /\ Len(plan) > 0

\* C7 witness: a form in range whose cathode durations do not sum to
\* anodeDays: the warning is shown and the plan is there.
C7_Witness ==
    /\ pc = "generated"
    /\ form.cathodeA + form.cathodeB + form.cathodeC # form.anodeDays
    /\ HasFinding("warn")
    /\ validationPassed
    /\ Len(plan) = 2

\* the inputs satisfy what validation demands of them
InputsValid(in) ==
    /\ in.groupCount >= 1 /\ in.groupCount <= 100
    /\ in.anodeDays >= 1 /\ in.anodeDays <= 365
    /\ \A i \in 1..3 : in.cathodePhases[i] >= 0
    /\ in.cleaningDays >= 0 /\ in.cleaningDays <= 60
    /\ in.groupStartOffsetDays >= 0 /\ in.groupStartOffsetDays <= 30
    /\ Len(in.harvestOrder) = in.groupCount
    /\ {in.harvestOrder[i] : i \in 1..Len(in.harvestOrder)} = 1..in.groupCount

\* C8: once generatePlan has run with an ERROR finding, plan is empty,
\* maxPlanDay is 0, no inputs were built and exportCsv emits nothing; a
\* non-empty plan is buildPlan of the inputs of the last generatePlan call,
\* which passed validation, and an export is the CSV of that plan.
\* Checked under Spec.
C8_NoPlanOnError ==
    /\ (pc # "constructed" /\ ~validationPassed) =>
           /\ HasFinding("error")
           /\ plan = <<>>
           /\ maxPlanDay = 0
           /\ inputs = Undefined
           /\ download = Undefined
    /\ plan # <<>> =>
           /\ validationPassed
           /\ IsDefined(inputs)
           /\ InputsValid(Get(inputs))
           /\ plan = buildPlan(Get(inputs))
    /\ IsDefined(download) =>
           /\ plan # <<>>
           /\ Get(download) = CsvContent(plan)

\* C8 witness: a generation that failed after a plan longer than the initial
\* timeline had been generated: the plan is gone, the timeline kept its length.
C8_Witness ==
    /\ pc = "generated"
    /\ ~validationPassed
    /\ plan = <<>>
    /\ timelineDays > 42

\* C10: maxPlanDay is the largest endDay of the plan (0 for the empty plan),
\* timelineDays >= max(42, maxPlanDay), and every phase of every group of the
\* plan lies within the timeline. Checked under Spec.
C10_PhasesWithinTimeline ==
    /\ maxPlanDay = MaxEndDay(plan)
    /\ timelineDays >= 42
    /\ timelineDays >= maxPlanDay
    /\ \A j \in 1..Len(plan) : \A i \in 1..Len(plan[j].phases) :
           /\ plan[j].phases[i].startDay >= 1
           /\ plan[j].phases[i].endDay <= timelineDays

\* the part of C10 about maxPlanDay and timelineDays alone
C10_TimelineCoversEndDays ==
    /\ maxPlanDay = MaxEndDay(plan)
    /\ timelineDays >= 42
    /\ timelineDays >= maxPlanDay
    /\ \A j \in 1..Len(plan) : plan[j].endDay <= timelineDays

====
